---- MODULE Spec2Model ----
(***************************************************************************)
(* hmpo-nunjucks-test: renderer(views, locales, globals, filters,          *)
(* realistic) builds a render function.  The model covers the locale       *)
(* loader (loadLocale and the merge of the loaded sources), the render     *)
(* call and the translate function it puts into the template context.      *)
(*                                                                         *)
(* Representation.  A JavaScript value is a record [t, s, kids]: t is the  *)
(* type tag, s the text of a string or boolean, kids the own properties of *)
(* a plain object.  A translation key 'a.b' is written as the sequence of  *)
(* its dot-separated segments <<"a", "b">>; Join gives back the string.    *)
(* Dictionary property names contain no dot, so lodash's path lookup is    *)
(* the walk along the segments.                                            *)
(***************************************************************************)
EXTENDS Naturals, Sequences, FiniteSets, TLC

VARIABLES
    pc,         \* "new": renderer() not called yet; "ready": render exists and is idle;
                \* "rendered": a render call has ended; "failed": renderer() threw;
                \* "html": cleanHtml not called yet; "clean": cleanHtml returned
    locales,    \* the locales argument of renderer(): [given, list]
    realistic,  \* the realistic argument of renderer()
    locale,     \* the closure variable locale (src/index.js:183)
    dictionary, \* render.dictionary (src/index.js:238)
    failure,    \* the message of the error renderer() threw, "" if none
    lastArg,    \* the options argument of the last render call
    result,     \* the outcome of the last render call
    earlier,    \* history: what the render call before the last one was like
    html,       \* the text $.html() gives to cleanHtml, as a sequence of characters
    cleaned     \* the text cleanHtml returned

vars == <<pc, locales, realistic, locale, dictionary, failure, lastArg, result, earlier,
          html, cleaned>>

-----------------------------------------------------------------------------
(* Bounds of the model *)

\* longest list of candidate keys passed to translate
MaxKeys == 2
\* most entries in a locale directory
MaxFiles == 2
\* most locale sources passed to renderer()
MaxSources == 2
\* most tokens (tags, spaces, newlines, letters) of a text given to cleanHtml
MaxTokens == 4

-----------------------------------------------------------------------------
(* JavaScript values *)

NoKids == [k \in {} |-> 0]

Undefined == [t |-> "undefined", s |-> "", kids |-> NoKids]
Null == [t |-> "null", s |-> "", kids |-> NoKids]
Str(s) == [t |-> "string", s |-> s, kids |-> NoKids]
Bool(b) == [t |-> "boolean", s |-> IF b THEN "true" ELSE "false", kids |-> NoKids]
Obj(f) == [t |-> "object", s |-> "", kids |-> f]
\* a function, known by its name
Fn(name) == [t |-> "function", s |-> name, kids |-> NoKids]

\* ToBoolean: what `!x`, `x || y` and `x && y` test
Truthy(v) ==
    CASE v.t = "object" -> TRUE
      [] v.t = "function" -> TRUE
      [] v.t = "string" -> v.s /= ""
      [] v.t = "boolean" -> v.s = "true"
      [] OTHER -> FALSE

\* a || b
Or(a, b) == IF Truthy(a) THEN a ELSE b

\* a && b
And(a, b) == IF Truthy(a) THEN b ELSE a

\* String(v)
String(v) ==
    CASE v.t = "undefined" -> "undefined"
      [] v.t = "null" -> "null"
      [] v.t = "object" -> "[object Object]"
      [] OTHER -> v.s

RECURSIVE Join(_)
\* the string whose split('.') is p
Join(p) ==
    IF p = <<>> THEN ""
    ELSE IF Len(p) = 1 THEN p[1]
    ELSE p[1] \o "." \o Join(Tail(p))

-----------------------------------------------------------------------------
(* lodash *)

RECURSIVE get(_, _)
\* _.get(object, path) for a path given by its segments
get(object, p) ==
    IF p = <<>> THEN object
    ELSE IF object.t = "object" /\ Head(p) \in DOMAIN object.kids
         THEN get(object.kids[Head(p)], Tail(p))
         ELSE Undefined

\* _.extend(a, b) on the property maps of two objects
extend(a, b) ==
    [k \in (DOMAIN a) \cup (DOMAIN b) |-> IF k \in DOMAIN b THEN b[k] ELSE a[k]]

\* o[k] on a property map
prop(o, k) == IF k \in DOMAIN o THEN o[k] ELSE Undefined

\* _.includes(collection, value) for the ignore option: [t, items]
includes(collection, k) ==
    /\ collection.t = "array"
    /\ ~k.undef
    /\ \E i \in DOMAIN collection.items : collection.items[i] = k.path

\* !options.ignore
IgnoreFalsy(ignore) ==
    \/ ignore.t = "undefined"
    \/ ignore.t = "boolean" /\ ~ignore.b

-----------------------------------------------------------------------------
(* translate *)

\* a key argument of translate: one string, or an array of strings
KeyString(p) == [isArray |-> FALSE, keys |-> <<p>>]
KeyArray(ps) == [isArray |-> TRUE, keys |-> ps]

\* keys[0]: undefined for the empty array
ElementZero(keys) ==
    IF keys = <<>> THEN [undef |-> TRUE, path |-> <<>>]
    ELSE [undef |-> FALSE, path |-> keys[1]]

\* '' + k
KeyText(k) == IF k.undef THEN "undefined" ELSE Join(k.path)

\* the path lodash walks for key k (undefined is cast to the name 'undefined')
CastPath(k) == IF k.undef THEN <<"undefined">> ELSE k.path

\* k as a value
KeyValue(k) == IF k.undef THEN Undefined ELSE Str(Join(k.path))

Return(v) == [threw |-> FALSE, value |-> v, error |-> ""]
Throw(msg) == [threw |-> TRUE, value |-> Undefined, error |-> msg]

RECURSIVE reduceLast(_, _, _)
\* reduce with the operands of || exchanged: the last candidate found wins
reduceLast(keys, dict, str) ==
    IF keys = <<>> THEN str
    ELSE reduceLast(Tail(keys), dict, Or(get(dict, Head(keys)), str))

RECURSIVE reduce(_, _, _)
\* _.reduce(keys, (str, k) => str || _.get(locale, k), str)
reduce(keys, dict, str) ==
    IF keys = <<>> THEN str
    ELSE reduce(Tail(keys), dict, Or(str, get(dict, Head(keys))))

\* translateRealistic falling back to the key before the default
translateRealisticSelfFirst(dict, key, translateOptions) ==
    IF ~Truthy(dict) THEN Return(Undefined)
    ELSE LET keys == IF key.isArray THEN key.keys ELSE <<key.keys[1]>>
         IN  Return(Or(Or(reduce(keys, dict, Null),
                          And(prop(translateOptions, "self"), KeyValue(ElementZero(keys)))),
                       prop(translateOptions, "default")))

\* the realistic branch of translate
translateRealistic(dict, key, translateOptions) ==
    IF ~Truthy(dict) THEN Return(Undefined)
    ELSE LET keys == IF key.isArray THEN key.keys ELSE <<key.keys[1]>>
         IN  Return(Or(Or(reduce(keys, dict, Null),
                          prop(translateOptions, "default")),
                       And(prop(translateOptions, "self"), KeyValue(ElementZero(keys)))))

\* FirstKey taking the last element of the array
LastKey(key) ==
    IF key.isArray
    THEN (IF key.keys = <<>> THEN ElementZero(<<>>) ELSE ElementZero(<<key.keys[Len(key.keys)]>>))
    ELSE ElementZero(<<key.keys[1]>>)

\* if (Array.isArray(key)) key = key[0]
FirstKey(key) ==
    IF key.isArray THEN ElementZero(key.keys) ELSE ElementZero(<<key.keys[1]>>)

\* NotFound without the test of options.ignore
NotFoundWhateverIgnore(options, k, translateOptions, translation) ==
    /\ Truthy(prop(translateOptions, "self"))
    /\ ~Truthy(translation)

\* NotFound without the test of translateOptions.self
NotFoundWhateverSelf(options, k, translateOptions, translation) ==
    /\ ~Truthy(translation)
    /\ IgnoreFalsy(options.ignore) = TRUE
    /\ ~includes(options.ignore, k)

\* the condition of the throw in the strict branch
NotFound(options, k, translateOptions, translation) ==
    /\ Truthy(prop(translateOptions, "self"))
    /\ ~Truthy(translation)
    /\ IgnoreFalsy(options.ignore) = TRUE
    /\ ~includes(options.ignore, k)

\* translateStrict returning the translation whatever options.translate is
translateStrictAlwaysTranslated(dict, options, key, translateOptions) ==
    LET k == FirstKey(key)
    IN  IF ~Truthy(dict) THEN Return(Str("[" \o KeyText(k) \o "]"))
        ELSE LET translation == Or(get(dict, CastPath(k)), prop(translateOptions, "default"))
             IN  IF NotFound(options, k, translateOptions, translation)
                 THEN Throw("Translation not found for " \o KeyText(k))
                 ELSE Return(Str(String(translation)))

\* the strict branch of translate
translateStrict(dict, options, key, translateOptions) ==
    LET k == FirstKey(key)
    IN  IF ~Truthy(dict) THEN Return(Str("[" \o KeyText(k) \o "]"))
        ELSE LET translation == Or(get(dict, CastPath(k)), prop(translateOptions, "default"))
             IN  IF NotFound(options, k, translateOptions, translation)
                 THEN Throw("Translation not found for " \o KeyText(k))
                 ELSE Return(IF Truthy(options.translate)
                             THEN Str(String(translation))
                             ELSE Str("[" \o KeyText(k) \o "]"))

\* translate without the realistic branch
translateAlwaysStrict(dict, real, options, key, translateOptions0) ==
    translateStrict(dict, options, key, extend("self" :> Bool(TRUE), translateOptions0))

\* translate(key, translateOptions) of one render call
translate(dict, real, options, key, translateOptions0) ==
    LET translateOptions == extend("self" :> Bool(TRUE), translateOptions0)
    IN  IF Truthy(real)
        THEN translateRealistic(dict, key, translateOptions)
        ELSE translateStrict(dict, options, key, translateOptions)

-----------------------------------------------------------------------------
(* The locale loader *)

\* deep-clone-merge: plain objects are merged key by key, recursively; any
\* other source value replaces what was there
RECURSIVE deepCloneMerge(_, _)
deepCloneMerge(dest, src) ==
    IF src.t # "object" THEN src
    ELSE LET base == IF dest.t = "object" THEN dest.kids ELSE NoKids
         IN  Obj([k \in (DOMAIN base) \cup (DOMAIN src.kids) |->
                    IF k \notin DOMAIN src.kids THEN base[k]
                    ELSE IF k \in DOMAIN base
                         THEN deepCloneMerge(base[k], src.kids[k])
                         ELSE src.kids[k]])

\* a path of the file system: a file (name, parsed content), a directory
\* (name, listing) or nothing at all
File(name, data) == [kind |-> "file", name |-> name, data |-> data, entries |-> <<>>]
Dir(name, entries) == [kind |-> "dir", name |-> name, data |-> Undefined, entries |-> entries]
Missing(name) == [kind |-> "missing", name |-> name, data |-> Undefined, entries |-> <<>>]

\* the content of a file whose text the parser rejects
Unparsable == [t |-> "invalid", s |-> "", kids |-> NoKids]

\* the last dot-separated segment of a name that has a dot, "" otherwise
Extension(name) == IF Len(name) >= 2 THEN name[Len(name)] ELSE ""

\* file.match(/\.(jso?n|ya?ml)$/)
MatchesLocaleFile(name) == Extension(name) \in {"json", "jsn", "yaml", "yml"}

\* p.match(/\.jso?n$/)
MatchesJson(name) == Extension(name) \in {"json", "jsn"}

\* p.match(/\.ya?ml$/)
MatchesYaml(name) == Extension(name) \in {"yaml", "yml"}

\* parts after split('.'), pop() and the shift() of a leading 'default'
MountParts(name) ==
    LET parts == SubSeq(name, 1, Len(name) - 1)
    IN  IF parts # <<>> /\ parts[1] = "default" THEN Tail(parts) ELSE parts

RECURSIVE WrapReversed(_, _)
\* Wrap taking the parts from the front: the nesting comes out reversed
WrapReversed(parts, data) ==
    IF parts = <<>> THEN data
    ELSE WrapReversed(Tail(parts), Obj(Head(parts) :> data))

RECURSIVE Wrap(_, _)
\* while (parts.length) data = { [parts.pop()]: data }
Wrap(parts, data) ==
    IF parts = <<>> THEN data
    ELSE Wrap(SubSeq(parts, 1, Len(parts) - 1), Obj(parts[Len(parts)] :> data))

\* loadFile mounting the file by its name also when there is no stack
loadFileAlwaysMounted(p, stack) ==
    IF ~(MatchesJson(p.name) \/ MatchesYaml(p.name))
    THEN Throw("Error loading localisation file " \o Join(p.name) \o ": Unknown file type")
    ELSE IF p.data.t = "invalid"
    THEN Throw("Error loading localisation file " \o Join(p.name) \o ": parse error")
    ELSE Return(deepCloneMerge(IF Truthy(stack) THEN stack ELSE Obj(NoKids),
                               Wrap(MountParts(p.name), p.data)))

\* the file branch of loadLocale
loadFile(p, stack) ==
    IF ~(MatchesJson(p.name) \/ MatchesYaml(p.name))
    THEN Throw("Error loading localisation file " \o Join(p.name) \o ": Unknown file type")
    ELSE IF p.data.t = "invalid"
    THEN Throw("Error loading localisation file " \o Join(p.name) \o ": parse error")
    ELSE IF ~Truthy(stack) THEN Return(p.data)
    ELSE Return(deepCloneMerge(stack, Wrap(MountParts(p.name), p.data)))

RECURSIVE loadLocale(_, _)
RECURSIVE forEachFile(_, _)

RECURSIVE forEachFileBackwards(_, _)
\* forEachFile going through the listing from its last entry to its first
forEachFileBackwards(files, data) ==
    IF files = <<>> THEN Return(data)
    ELSE LET last == files[Len(files)]
             rest == SubSeq(files, 1, Len(files) - 1)
         IN  IF ~MatchesLocaleFile(last.name) THEN forEachFileBackwards(rest, data)
             ELSE LET r == loadLocale(last, data)
                  IN  IF r.threw THEN r ELSE forEachFileBackwards(rest, r.value)

\* files.forEach(file => { if (file.match(...)) data = loadLocale(file, data) })
forEachFile(files, data) ==
    IF files = <<>> THEN Return(data)
    ELSE IF ~MatchesLocaleFile(Head(files).name) THEN forEachFile(Tail(files), data)
    ELSE LET r == loadLocale(Head(files), data)
         IN  IF r.threw THEN r ELSE forEachFile(Tail(files), r.value)

\* loadLocale(p, stack)
loadLocale(p, stack) ==
    IF p.kind = "missing" THEN Throw("ENOENT: no such file or directory " \o Join(p.name))
    ELSE IF p.kind = "dir" THEN forEachFile(p.entries, Obj(NoKids))
    ELSE loadFile(p, stack)

RECURSIVE mapLoadLocaleSkippingErrors(_)
\* mapLoadLocale leaving out the sources that fail to load
mapLoadLocaleSkippingErrors(list) ==
    IF list = <<>> THEN [threw |-> FALSE, values |-> <<>>, error |-> ""]
    ELSE LET r == loadLocale(Head(list), Undefined)
             rest == mapLoadLocaleSkippingErrors(Tail(list))
         IN  IF r.threw THEN rest
             ELSE [threw |-> FALSE, values |-> <<r.value>> \o rest.values, error |-> ""]

RECURSIVE mapLoadLocale(_)
\* locales.map(locale => loadLocale(locale)): the loaded sources, or the first error
mapLoadLocale(list) ==
    IF list = <<>> THEN [threw |-> FALSE, values |-> <<>>, error |-> ""]
    ELSE LET r == loadLocale(Head(list), Undefined)
         IN  IF r.threw THEN [threw |-> TRUE, values |-> <<>>, error |-> r.error]
             ELSE LET rest == mapLoadLocale(Tail(list))
                  IN  IF rest.threw THEN rest
                      ELSE [threw |-> FALSE, values |-> <<r.value>> \o rest.values, error |-> ""]

RECURSIVE mergeFrom(_, _)
mergeFrom(dest, list) ==
    IF list = <<>> THEN dest
    ELSE mergeFrom(deepCloneMerge(dest, Head(list)), Tail(list))

RECURSIVE mergeBackwards(_, _)
mergeBackwards(dest, list) ==
    IF list = <<>> THEN dest
    ELSE mergeBackwards(deepCloneMerge(dest, list[Len(list)]), SubSeq(list, 1, Len(list) - 1))

\* mergeLocales taking the sources from the last to the first: the first wins
mergeLocalesFirstWins(list) == mergeBackwards(Obj(NoKids), list)

\* deepCloneMerge(...locales)
mergeLocales(list) == mergeFrom(Obj(NoKids), list)

-----------------------------------------------------------------------------
(* cleanHtml *)

\* \s, for the white space the texts contain
IsSpace(c) == c \in {" ", "\n"}

RECURSIVE SkipSpace(_, _)
\* the position after the white space that starts at position i
SkipSpace(s, i) ==
    IF i <= Len(s) /\ IsSpace(s[i]) THEN SkipSpace(s, i + 1) ELSE i

RECURSIVE FirstGt(_, _)
\* the position of the first '>' at or after position i, 0 if there is none
FirstGt(s, i) ==
    IF i > Len(s) THEN 0
    ELSE IF s[i] = ">" THEN i
    ELSE FirstGt(s, i + 1)

\* where a match of <[^/][^>]+> that starts at position i ends, 0 if there
\* is none: '<', one character that is not '/', one or more characters that
\* are not '>', and '>'
OpeningMatchEnd(s, i) ==
    IF /\ i + 2 <= Len(s)
       /\ s[i] = "<"
       /\ s[i + 1] # "/"
       /\ s[i + 2] # ">"
    THEN FirstGt(s, i + 2)
    ELSE 0

\* where a match of <\/[^>]+> that starts at position i ends, 0 if there is none
ClosingMatchEnd(s, i) ==
    IF /\ i + 2 <= Len(s)
       /\ s[i] = "<"
       /\ s[i + 1] = "/"
       /\ s[i + 2] # ">"
    THEN FirstGt(s, i + 2)
    ELSE 0

RECURSIVE replaceEntity(_, _)
\* .replace(/&#x2019;/g, <right single quotation mark>); the character
\* U+2019 is written "rsquo"
replaceEntity(s, i) ==
    IF i > Len(s) THEN <<>>
    ELSE IF i + 7 <= Len(s) /\ SubSeq(s, i, i + 7) = <<"&", "#", "x", "2", "0", "1", "9", ";">>
    THEN <<"rsquo">> \o replaceEntity(s, i + 8)
    ELSE <<s[i]>> \o replaceEntity(s, i + 1)

RECURSIVE replaceAfterOpening(_, _)
\* .replace(/(<[^/][^>]+>)\s*/g, '$1')
replaceAfterOpening(s, i) ==
    IF i > Len(s) THEN <<>>
    ELSE LET j == OpeningMatchEnd(s, i)
         IN  IF j # 0
             THEN SubSeq(s, i, j) \o replaceAfterOpening(s, SkipSpace(s, j + 1))
             ELSE <<s[i]>> \o replaceAfterOpening(s, i + 1)

RECURSIVE replaceBeforeClosing(_, _)
\* .replace(/\s*(<\/[^>]+>)/g, '$1')
replaceBeforeClosing(s, i) ==
    IF i > Len(s) THEN <<>>
    ELSE LET k == SkipSpace(s, i)
             j == ClosingMatchEnd(s, k)
         IN  IF j # 0
             THEN SubSeq(s, k, j) \o replaceBeforeClosing(s, j + 1)
             ELSE <<s[i]>> \o replaceBeforeClosing(s, i + 1)

RECURSIVE replaceNewlines(_, _)
\* .replace(/(\n\s*)+/g, '')
replaceNewlines(s, i) ==
    IF i > Len(s) THEN <<>>
    ELSE IF s[i] = "\n" THEN replaceNewlines(s, SkipSpace(s, i))
    ELSE <<s[i]>> \o replaceNewlines(s, i + 1)

RECURSIVE trim(_)
\* html.trim()
trim(s) ==
    IF s = <<>> THEN s
    ELSE IF IsSpace(s[1]) THEN trim(Tail(s))
    ELSE IF IsSpace(s[Len(s)]) THEN trim(SubSeq(s, 1, Len(s) - 1))
    ELSE s

\* cleanHtml($), for the text $.html() returns
cleanHtml(text) ==
    trim(replaceNewlines(replaceBeforeClosing(replaceAfterOpening(replaceEntity(text, 1), 1), 1), 1))

-----------------------------------------------------------------------------
(* renderer and render *)

\* the ignore option of render: unset, a boolean, or an array of keys
IgnoreUnset == [t |-> "undefined", b |-> FALSE, items |-> <<>>]
IgnoreBool(b) == [t |-> "boolean", b |-> b, items |-> <<>>]
IgnoreArray(items) == [t |-> "array", b |-> FALSE, items |-> items]

\* one translate call written in a template
Call(key, translateOptions) == [fn |-> "translate", key |-> key, opts |-> translateOptions]

\* one ctx call written in a template: ctx(key), and ctx() without a key
CtxCall(key) == [fn |-> "ctx", key |-> key, opts |-> NoKids]
NoKeyArgument == [isArray |-> FALSE, keys |-> <<>>]

\* the arguments of render: the options and the context (default {}).  str is
\* the options argument when it is a string; body lists the calls that the
\* template source in options.string makes, in the order the engine
\* evaluates them
Options(template, string, component, translateFlag, ignore, body) ==
    [str |-> Undefined, template |-> template, string |-> string,
     component |-> component, translate |-> translateFlag, ignore |-> ignore,
     body |-> body, context |-> NoKids]

StringArgument(name) ==
    [str |-> Str(name), template |-> Undefined, string |-> Undefined,
     component |-> Undefined, translate |-> Undefined, ignore |-> IgnoreUnset,
     body |-> <<>>, context |-> NoKids]

\* render(options, context) with a context
WithContext(arg, context) == [arg EXCEPT !.context = context]

\* if (typeof options === 'string') options = { template: options }
NormaliseOptions(arg) ==
    IF arg.str.t = "string"
    THEN WithContext(Options(arg.str, Undefined, Undefined, Undefined, IgnoreUnset, <<>>),
                     arg.context)
    ELSE arg

\* the functions render defines for the template
BuiltIns == "translate" :> Fn("translate") @@ "ctx" :> Fn("ctx")

\* assignContext with the operands exchanged: the built-in functions win
assignContextBuiltInsLast(context) == Obj(extend(context, BuiltIns))

\* context = Object.assign({ translate: ..., ctx: ... }, context)
assignContext(context) == Obj(extend(BuiltIns, context))

\* ctx: key => key ? _.get(context, key) : context
ctx(context, key) ==
    LET k == ElementZero(key.keys)
    IN  IF Truthy(KeyValue(k)) THEN get(context, k.path) ELSE context

\* what a call of a function of the caller gives
Applied(f) == Str("result of " \o f.s)

\* one call of the template: the engine looks the name up in the context and
\* calls what it finds (the contexts of the model hold functions only under
\* the names translate and ctx)
callInTemplate(c, dict, real, options) ==
    LET context == assignContext(options.context)
        f == prop(context.kids, c.fn)
    IN  IF f = Fn("translate") THEN translate(dict, real, options, c.key, c.opts)
        ELSE IF f = Fn("ctx") THEN Return(ctx(context, c.key))
        ELSE Return(Applied(f))

\* the translate calls of the templates in the views directory of the tests:
\* test.html shows test1, the macro testComponent shows test2 and then test3
ViewCalls(name) ==
    CASE name = "test.html" -> <<Call(KeyString(<<"test1">>), NoKids)>>
      [] name = "testComponent" -> <<Call(KeyString(<<"test2">>), NoKids),
                                     Call(KeyString(<<"test3">>), NoKids)>>
      [] OTHER -> <<>>

RECURSIVE renderCalls(_, _, _, _)
\* the engine evaluates the calls of a template in order; an error thrown by
\* one of them ends the rendering
renderCalls(calls, dict, real, options) ==
    IF calls = <<>> THEN [threw |-> FALSE, out |-> <<>>, error |-> ""]
    ELSE LET r == callInTemplate(Head(calls), dict, real, options)
         IN  IF r.threw THEN [threw |-> TRUE, out |-> <<>>, error |-> r.error]
             ELSE LET rest == renderCalls(Tail(calls), dict, real, options)
                  IN  IF rest.threw THEN rest
                      ELSE [threw |-> FALSE, out |-> <<r.value>> \o rest.out, error |-> ""]

\* render falling back to an empty document when no mode is selected
renderWithoutModeCheck(dict, real, arg) ==
    LET options == NormaliseOptions(arg)
    IN  IF Truthy(options.template)
        THEN renderCalls(ViewCalls(options.template.s), dict, real, options)
        ELSE IF Truthy(options.string)
        THEN renderCalls(options.body, dict, real, options)
        ELSE IF Truthy(options.component)
        THEN renderCalls(ViewCalls(options.component.s), dict, real, options)
        ELSE [threw |-> FALSE, out |-> <<>>, error |-> ""]

\* render(options): the values the translate calls put into the output, or
\* the error that ended the call
render(dict, real, arg) ==
    LET options == NormaliseOptions(arg)
    IN  IF Truthy(options.template)
        THEN renderCalls(ViewCalls(options.template.s), dict, real, options)
        ELSE IF Truthy(options.string)
        THEN renderCalls(options.body, dict, real, options)
        ELSE IF Truthy(options.component)
        THEN renderCalls(ViewCalls(options.component.s), dict, real, options)
        ELSE [threw |-> TRUE, out |-> <<>>, error |-> "Cannot render!"]

-----------------------------------------------------------------------------
(* Inputs *)

\* the locale files of the tests, and one more with an empty translation and
\* a nested entry
Locale1 == Obj("test1" :> Str("foo") @@ "test2" :> Str("bar"))
Locale2 == Obj("test2" :> Str("baz"))
Locale3 == Obj("test4" :> Str("") @@ "obj" :> Obj("obj2" :> Str("jsonvalue")))

LocaleDirectory ==
    Dir(<<"locale">>,
        <<File(<<"default", "yaml">>, Obj("base" :> Obj("key" :> Str("value")))),
          File(<<"locale1", "json">>, Locale1),
          File(<<"locale2", "json">>, Locale2),
          File(<<"obj", "obj2", "json">>, Obj("name" :> Str("jsonvalue")))>>)

NoLocales == [given |-> FALSE, list |-> <<>>]
Locales(list) == [given |-> TRUE, list |-> list]

FixtureLocales ==
    { NoLocales,
      Locales(<<File(<<"locale1", "json">>, Locale1), File(<<"locale2", "json">>, Locale2)>>),
      Locales(<<File(<<"locale1", "json">>, Locale1), File(<<"locale2", "json">>, Locale2),
                File(<<"locale3", "yaml">>, Locale3)>>),
      Locales(<<LocaleDirectory>>) }

\* keys the templates ask for: present, absent, present with an empty
\* translation, and a nested key that is a string in one dictionary and a
\* mapping in another
KeyPaths == { <<"test2">>, <<"test3">>, <<"test4">>, <<"obj", "obj2">> }

KeyLists == UNION { [1..n -> KeyPaths] : n \in 0..MaxKeys }

KeyArguments == { KeyString(p) : p \in KeyPaths } \cup { KeyArray(ps) : ps \in KeyLists }

TranslateOptions ==
    { d @@ s : d \in {NoKids} \cup { "default" :> v : v \in {Str("a default"), Str("")} },
               s \in {NoKids} \cup { "self" :> Bool(b) : b \in BOOLEAN } }

Calls == { Call(k, o) : k \in KeyArguments, o \in TranslateOptions }

TranslateFlags == { Undefined, Bool(TRUE), Bool(FALSE) }

Ignores ==
    { IgnoreUnset, IgnoreBool(TRUE), IgnoreArray(<<>>),
      IgnoreArray(<<<<"test3">>>>), IgnoreArray(<<<<"test2">>, <<"test4">>>>) }

\* contexts the caller passes: none of its own entries, plain entries, and
\* entries under the names translate and ctx
Contexts ==
    { NoKids,
      "name" :> Str("John") @@ "user" :> Obj("name" :> Str("Jo")),
      "translate" :> Fn("callerTranslate"),
      "ctx" :> Fn("callerCtx") @@ "name" :> Str("John"),
      "translate" :> Fn("callerTranslate") @@ "ctx" :> Fn("callerCtx") }

\* calls the templates make that look at the context
ContextCalls ==
    { CtxCall(NoKeyArgument),
      CtxCall(KeyString(<<"name">>)),
      CtxCall(KeyString(<<"user", "name">>)),
      CtxCall(KeyString(<<"translate">>)),
      CtxCall(KeyString(<<"">>)),
      Call(KeyString(<<"test2">>), NoKids) }

RenderArguments ==
    { StringArgument("test.html"), StringArgument("") }
    \cup { Options(Str("test.html"), Undefined, Undefined, f, i, <<>>) :
             f \in TranslateFlags, i \in Ignores }
    \cup { Options(Undefined, Undefined, Str(c), f, i, <<>>) :
             c \in {"testComponent", "callerComponent"}, f \in TranslateFlags, i \in Ignores }
    \cup { Options(Undefined, Str("<b>string {{translate(...)}}</b>"), Undefined, f, i, <<c>>) :
             f \in TranslateFlags, i \in Ignores, c \in Calls }
    \cup { Options(Undefined, Undefined, Undefined, f, i, <<>>) :
             f \in TranslateFlags, i \in Ignores }
    \cup { WithContext(Options(Undefined, Str("{{ctx(...)}} {{translate(...)}}"), Undefined,
                               Undefined, IgnoreUnset, <<c>>), x) :
             c \in ContextCalls, x \in Contexts }

\* parsed contents of the locale files of the loader runs: they overlap in
\* their keys, as leaves and as mappings, and with the names of the files
Contents ==
    { Obj("b" :> Str("x")),
      Obj("a" :> Obj("b" :> Str("z")) @@ "c" :> Str("v")),
      Obj("a" :> Str("q")) }

FileNames ==
    { <<"a", "json">>, <<"a", "b", "yaml">>, <<"default", "yml">>, <<"default", "a", "jsn">> }

LocaleFiles == { File(n, c) : n \in FileNames, c \in Contents }

\* what a locale directory may list: locale files, a file the parser rejects,
\* a file of another type, and subdirectories with and without a locale
\* extension in their name
DirEntries ==
    LocaleFiles
    \cup { File(<<"a", "json">>, Unparsable),
           File(<<"readme", "txt">>, Obj("b" :> Str("x"))),
           Dir(<<"sub">>, <<File(<<"a", "json">>, Obj("b" :> Str("x")))>>),
           Dir(<<"sub", "json">>, <<File(<<"a", "json">>, Obj("b" :> Str("x")))>>),
           Dir(<<"sub", "yaml">>, <<File(<<"a", "json">>, Unparsable)>>) }

Listings(n) == UNION { [1..m -> DirEntries] : m \in 0..n }

\* what the locales list may name: locale files, a file of another type, a
\* path that does not exist, and small directories
TopSources ==
    LocaleFiles
    \cup { File(<<"a", "json">>, Unparsable),
           File(<<"a", "txt">>, Obj("b" :> Str("x"))),
           Missing(<<"nowhere", "json">>) }
    \cup { Dir(<<"locale">>, <<f>>) : f \in LocaleFiles }

\* a list of sources, or one directory on its own
LoadLocales ==
    { Locales(l) : l \in UNION { [1..m -> TopSources] : m \in 1..MaxSources } }
    \cup { Locales(<<Dir(<<"locale">>, l)>>) : l \in Listings(MaxFiles) }

NoResult == [done |-> FALSE, threw |-> FALSE, out |-> <<>>, error |-> ""]

\* no render call was made before the last one
NoEarlier == [called |-> FALSE, ignore |-> FALSE, translate |-> FALSE, threw |-> FALSE]

-----------------------------------------------------------------------------
(* The state machine *)

Start(sources, flags) ==
    /\ pc = "new"
    /\ locales \in sources
    /\ realistic \in flags
    /\ locale = Undefined
    /\ dictionary = Undefined
    /\ failure = ""
    /\ lastArg = StringArgument("")
    /\ result = NoResult
    /\ earlier = NoEarlier
    /\ html = <<>>
    /\ cleaned = <<>>

Init == Start(FixtureLocales, {Undefined, Bool(TRUE)})

\* renderer(views, locales, globals, filters, realistic)
Renderer ==
    /\ pc = "new"
    /\ LET loaded == IF locales.given THEN mapLoadLocale(locales.list)
                     ELSE [threw |-> FALSE, values |-> <<>>, error |-> ""]
       IN  IF loaded.threw
           THEN /\ pc' = "failed"
                /\ failure' = loaded.error
                /\ UNCHANGED <<locale, dictionary>>
           ELSE /\ pc' = "ready"
                /\ locale' = IF locales.given THEN mergeLocales(loaded.values) ELSE Undefined
                /\ dictionary' = locale'
                /\ UNCHANGED failure
    /\ UNCHANGED <<locales, realistic, lastArg, result, earlier, html, cleaned>>

\* Render with an ignore option that stays on: once a call had it set, the
\* calls after it that leave it unset are rendered with ignore: true
RenderWithEarlierIgnore ==
    /\ pc = "ready"
    /\ \E arg \in RenderArguments :
         LET sticky == IF earlier.ignore /\ IgnoreFalsy(arg.ignore)
                       THEN [arg EXCEPT !.ignore = IgnoreBool(TRUE)]
                       ELSE arg
             r == render(locale, realistic, sticky)
         IN  /\ lastArg' = arg
             /\ result' = [done |-> TRUE, threw |-> r.threw, out |-> r.out, error |-> r.error]
    /\ pc' = "rendered"
    /\ UNCHANGED <<locales, realistic, locale, dictionary, failure, earlier, html, cleaned>>

\* Render keeping the values it rendered in the dictionary
RenderWritingDictionary ==
    /\ pc = "ready"
    /\ \E arg \in RenderArguments :
         LET r == render(locale, realistic, arg)
         IN  /\ lastArg' = arg
             /\ result' = [done |-> TRUE, threw |-> r.threw, out |-> r.out, error |-> r.error]
             /\ locale' = IF Truthy(locale) /\ r.threw
                           THEN deepCloneMerge(locale, Obj("error" :> Str(r.error)))
                           ELSE locale
    /\ pc' = "rendered"
    /\ UNCHANGED <<locales, realistic, dictionary, failure, earlier, html, cleaned>>

\* render(options)
Render ==
    /\ pc = "ready"
    /\ \E arg \in RenderArguments :
         LET r == render(locale, realistic, arg)
         IN  /\ lastArg' = arg
             /\ result' = [done |-> TRUE, threw |-> r.threw, out |-> r.out, error |-> r.error]
    /\ pc' = "rendered"
    /\ UNCHANGED <<locales, realistic, locale, dictionary, failure, earlier, html, cleaned>>

\* the caller drops the outcome of the render call and is free to call again
Discard ==
    /\ pc = "rendered"
    /\ pc' = "ready"
    /\ lastArg' = StringArgument("")
    /\ result' = NoResult
    /\ UNCHANGED <<locales, realistic, locale, dictionary, failure, earlier, html, cleaned>>

Next == Renderer \/ Render \/ Discard

Spec == Init /\ [][Next]_vars

\* the loader on its own: renderer() over generated locale sources
LoadInit == Start(LoadLocales, {Undefined})

LoadNext == Renderer

LoadSpec == LoadInit /\ [][LoadNext]_vars

\* the locales of the runs that make one render call after another
SequenceLocales ==
    { Locales(<<File(<<"locale1", "json">>, Locale1), File(<<"locale2", "json">>, Locale2),
                File(<<"locale3", "yaml">>, Locale3)>>) }

\* the caller is done with the outcome of the render call and calls render
\* again on the same renderer; the history keeps whether the call that ended
\* had its ignore option set, had its translate flag set, and threw
Again ==
    /\ pc = "rendered"
    /\ pc' = "ready"
    /\ earlier' = [called |-> TRUE,
                   ignore |-> ~IgnoreFalsy(NormaliseOptions(lastArg).ignore),
                   translate |-> Truthy(NormaliseOptions(lastArg).translate),
                   threw |-> result.threw]
    /\ lastArg' = StringArgument("")
    /\ result' = NoResult
    /\ UNCHANGED <<locales, realistic, locale, dictionary, failure, html, cleaned>>

\* the pieces of the texts given to cleanHtml: tags with a name of one letter
\* and of two, white space, and a letter of text
Tokens ==
    { <<"<", "p", ">">>, <<"<", "/", "p", ">">>,
      <<"<", "u", "l", ">">>, <<"<", "/", "u", "l", ">">>,
      <<" ">>, <<"\n">>, <<"a">> }

IsOpening(token) == Len(token) >= 3 /\ token[2] # "/"
IsClosing(token) == Len(token) >= 3 /\ token[2] = "/"

RECURSIVE WellNested(_, _)
\* every closing tag of the tokens closes the element opened last, and the
\* elements of the list open are all closed at the end
WellNested(tokens, open) ==
    IF tokens = <<>> THEN open = <<>>
    ELSE IF IsOpening(Head(tokens))
    THEN WellNested(Tail(tokens), <<Head(tokens)[2]>> \o open)
    ELSE IF IsClosing(Head(tokens))
    THEN open # <<>> /\ Head(open) = Head(tokens)[3] /\ WellNested(Tail(tokens), Tail(open))
    ELSE WellNested(Tail(tokens), open)

RECURSIVE Flatten(_)
Flatten(tokens) == IF tokens = <<>> THEN <<>> ELSE Head(tokens) \o Flatten(Tail(tokens))

\* the texts a parsed document serialises to
Documents ==
    { Flatten(ts) : ts \in { t \in UNION { [1..n -> Tokens] : n \in 0..MaxTokens } :
                                WellNested(t, <<>>) } }

\* cleanHtml on its own, over the texts of small documents
CleanInit ==
    /\ pc = "html"
    /\ locales = NoLocales
    /\ realistic = Undefined
    /\ locale = Undefined
    /\ dictionary = Undefined
    /\ failure = ""
    /\ lastArg = StringArgument("")
    /\ result = NoResult
    /\ earlier = NoEarlier
    /\ html \in Documents
    /\ cleaned = <<>>

\* cleanHtml($)
CleanHtml ==
    /\ pc = "html"
    /\ pc' = "clean"
    /\ cleaned' = cleanHtml(html)
    /\ UNCHANGED <<locales, realistic, locale, dictionary, failure, lastArg, result,
                   earlier, html>>

CleanNext == CleanHtml

CleanSpec == CleanInit /\ [][CleanNext]_vars

\* one renderer, any number of render calls one after another
SequenceInit == Start(SequenceLocales, {Undefined, Bool(TRUE)})

SequenceNext == Renderer \/ Render \/ Again

SequenceSpec == SequenceInit /\ [][SequenceNext]_vars

-----------------------------------------------------------------------------
(* What the last render call shows *)

Strict == ~Truthy(realistic)
Realistic == Truthy(realistic)
Loaded == Truthy(locale)

\* the last render call rendered the source in options.string, which makes
\* one translate call
Translated ==
    /\ pc = "rendered"
    /\ lastArg.str.t # "string"
    /\ ~Truthy(lastArg.template)
    /\ Truthy(lastArg.string)
    /\ Len(lastArg.body) = 1
    /\ lastArg.body[1].fn = "translate"
    /\ "translate" \notin DOMAIN lastArg.context

TheCall == lastArg.body[1]
TheKeys == TheCall.key.keys
TheOptions == TheCall.opts

\* the key a strict translate call is about, when it has one
TheKey == TheKeys[1]

\* what that translate call did: the value it returned, or the error it threw
Threw(msg) == result.threw /\ result.error = msg
Returned(v) == ~result.threw /\ result.out = <<v>>

DefaultGiven == "default" \in DOMAIN TheOptions
SelfTrue == "self" \notin DOMAIN TheOptions \/ TheOptions["self"] = Bool(TRUE)
SelfFalse == "self" \in DOMAIN TheOptions /\ TheOptions["self"] = Bool(FALSE)

Absent(p) == get(locale, p) = Undefined
Present(p) == get(locale, p) # Undefined

\* the ignore option of the last render call names key p, or is true
IgnoreLists(p) ==
    /\ lastArg.ignore.t = "array"
    /\ \E i \in DOMAIN lastArg.ignore.items : lastArg.ignore.items[i] = p
IgnoreTrue == lastArg.ignore.t = "boolean" /\ lastArg.ignore.b

-----------------------------------------------------------------------------
(* The claims *)

\* C1: strict mode, dictionary loaded: a translate call for a key that is
\* absent from the dictionary, with no default, with self true, and with the
\* ignore option unset or an array that does not contain the key, throws
\* 'Translation not found for <key>', and the render call ends with that error.
C1_AbsentKeyThrows ==
    ( /\ Translated /\ Strict /\ Loaded
      /\ TheKeys # <<>>
      /\ Absent(TheKey)
      /\ ~DefaultGiven
      /\ SelfTrue
      /\ \/ lastArg.ignore.t = "undefined"
         \/ lastArg.ignore.t = "array" /\ ~IgnoreLists(TheKey) )
    => Threw("Translation not found for " \o Join(TheKey))

\* C1, the part the code keeps: with the ignore option unset the call throws.
C1_AbsentKeyThrowsWithoutIgnore ==
    ( /\ Translated /\ Strict /\ Loaded
      /\ TheKeys # <<>>
      /\ Absent(TheKey)
      /\ ~DefaultGiven
      /\ SelfTrue
      /\ lastArg.ignore.t = "undefined" )
    => Threw("Translation not found for " \o Join(TheKey))

\* C2: strict mode, dictionary loaded: when the key is absent and the ignore
\* option is true or an array that contains the key, translate does not throw
\* and the render call completes with the value of the call in its output.
C2_IgnoredKeyDoesNotThrow ==
    ( /\ Translated /\ Strict /\ Loaded
      /\ TheKeys # <<>>
      /\ Absent(TheKey)
      /\ IgnoreTrue \/ IgnoreLists(TheKey) )
    => ~result.threw /\ Len(result.out) = 1

C2_Witness ==
    /\ Translated /\ Strict /\ Loaded
    /\ TheKeys # <<>>
    /\ Absent(TheKey)
    /\ ~DefaultGiven /\ SelfTrue
    /\ IgnoreLists(TheKey)
    /\ ~result.threw
    /\ Len(result.out) = 1

\* the position of the first key of a list that satisfies Found
FirstIndex(keys, Found(_)) ==
    CHOOSE i \in DOMAIN keys : Found(keys[i]) /\ \A j \in 1..(i - 1) : ~Found(keys[j])

HasTranslation(p) == Truthy(get(locale, p))

\* C3 as stated: realistic mode, dictionary loaded: translate returns the
\* dictionary value of the first candidate, in list order, whose lookup
\* returns a defined value, whatever that value is.
C3_FirstDefinedWins ==
    ( /\ Translated /\ Realistic /\ Loaded
      /\ \E i \in DOMAIN TheKeys : Present(TheKeys[i]) )
    => Returned(get(locale, TheKeys[FirstIndex(TheKeys, Present)]))

\* C3 as amended: realistic mode, dictionary loaded: translate returns the
\* dictionary value of the first candidate, in list order, whose lookup
\* returns a truthy value (a string that is not empty, or a mapping);
\* candidates before it that are missing or whose value is the empty string
\* are skipped, and candidates after it are never used.
C3_FirstTruthyWins ==
    ( /\ Translated /\ Realistic /\ Loaded
      /\ \E i \in DOMAIN TheKeys : HasTranslation(TheKeys[i]) )
    => Returned(get(locale, TheKeys[FirstIndex(TheKeys, HasTranslation)]))

C3_Witness ==
    /\ Translated /\ Realistic /\ Loaded
    /\ TheCall.key.isArray
    /\ Len(TheKeys) = 2
    /\ Absent(TheKeys[1])
    /\ HasTranslation(TheKeys[2])
    /\ DefaultGiven
    /\ Returned(get(locale, TheKeys[2]))

\* C4 as stated: realistic mode, dictionary loaded, no candidate key
\* resolves: translate returns options.default if it is set; otherwise, when
\* self is truthy, the first candidate key as a string.
C4_DefaultThenSelf ==
    ( /\ Translated /\ Realistic /\ Loaded
      /\ TheKeys # <<>>
      /\ \A i \in DOMAIN TheKeys : Absent(TheKeys[i]) )
    => IF DefaultGiven THEN Returned(TheOptions["default"])
       ELSE (SelfTrue => Returned(Str(Join(TheKeys[1]))))

\* C4 as amended: realistic mode, dictionary loaded, no candidate key has a
\* truthy value: translate returns options.default if it is set to a truthy
\* value (a string that is not empty); otherwise (no default, or the empty
\* string), when self is truthy, the first candidate key as a string.  A
\* truthy default takes precedence over the key.
C4_TruthyDefaultThenSelf ==
    ( /\ Translated /\ Realistic /\ Loaded
      /\ TheKeys # <<>>
      /\ \A i \in DOMAIN TheKeys : ~HasTranslation(TheKeys[i]) )
    => IF DefaultGiven /\ Truthy(TheOptions["default"])
       THEN Returned(TheOptions["default"])
       ELSE (SelfTrue => Returned(Str(Join(TheKeys[1]))))

C4_Witness ==
    /\ Translated /\ Realistic /\ Loaded
    /\ TheKeys # <<>>
    /\ \A i \in DOMAIN TheKeys : Absent(TheKeys[i])
    /\ DefaultGiven /\ Truthy(TheOptions["default"])
    /\ SelfTrue
    /\ Returned(TheOptions["default"])

\* the options of the last render call select a template, a string or a component
ModeSelected ==
    LET options == NormaliseOptions(lastArg)
    IN  Truthy(options.template) \/ Truthy(options.string) \/ Truthy(options.component)

\* the translate calls the last render call has to evaluate
CallsOfRender ==
    LET options == NormaliseOptions(lastArg)
    IN  IF Truthy(options.template) THEN ViewCalls(options.template.s)
        ELSE IF Truthy(options.string) THEN options.body
        ELSE IF Truthy(options.component) THEN ViewCalls(options.component.s)
        ELSE <<>>

\* C5: realistic mode never throws for a missing translation: with or without
\* a dictionary, for a key or a list of keys (the empty list too) and every
\* combination of default and self, every translate call of a render returns
\* a value and the render call raises no error.
C5_RealisticNeverThrows ==
    (pc = "rendered" /\ Realistic /\ ModeSelected)
    => ~result.threw /\ Len(result.out) = Len(CallsOfRender)

C5_Witness ==
    /\ Translated /\ Realistic /\ Loaded
    /\ TheCall.key.isArray
    /\ \A i \in DOMAIN TheKeys : Absent(TheKeys[i])
    /\ ~DefaultGiven
    /\ SelfTrue
    /\ lastArg.ignore.t = "undefined"
    /\ ~result.threw

C7_OnlyFirstKey ==
    ( /\ Translated /\ Strict
      /\ TheCall.key.isArray
      /\ TheKeys # <<>> )
    => LET alone == translate(locale, realistic, lastArg, KeyString(TheKeys[1]), TheOptions)
       IN  IF alone.threw THEN Threw(alone.error) ELSE Returned(alone.value)

C7_Witness ==
    /\ Translated /\ Strict /\ Loaded
    /\ TheCall.key.isArray
    /\ Len(TheKeys) = 2
    /\ Absent(TheKeys[1])
    /\ HasTranslation(TheKeys[2])
    /\ Threw("Translation not found for " \o Join(TheKeys[1]))

-----------------------------------------------------------------------------
(* What the loader built *)

\* renderer() returned a render function with a dictionary
Built == pc = "ready" /\ locales.given

\* what loadLocale made of the i-th source of the list
LoadedSource(i) == loadLocale(locales.list[i], Undefined).value

RECURSIVE LeafPaths(_)
\* the key paths of a dictionary that end in a value that is no mapping
LeafPaths(v) ==
    IF v.t # "object" THEN {<<>>}
    ELSE UNION { { <<k>> \o q : q \in LeafPaths(v.kids[k]) } : k \in DOMAIN v.kids }

RECURSIVE KeyPathsOf(_)
\* the key paths a dictionary defines, those of its mappings included
KeyPathsOf(v) ==
    IF v.t # "object" THEN {}
    ELSE UNION { {<<k>>} \cup { <<k>> \o q : q \in KeyPathsOf(v.kids[k]) } : k \in DOMAIN v.kids }

IsMapping(v) == v.t = "object"

\* a value that is no mapping sits in v at a proper prefix of p
CutOff(v, p) == \E n \in 1..(Len(p) - 1) : SubSeq(p, 1, n) \in LeafPaths(v)

\* C8 as stated, for a list of two sources S1, S2: a key path defined in both
\* resolves in the merged dictionary to S2's value, and a key path defined
\* only in S1 keeps S1's value.
C8_SecondSourceWins ==
    (Built /\ Len(locales.list) = 2)
    => LET S1 == LoadedSource(1)
           S2 == LoadedSource(2)
       IN  \A p \in KeyPathsOf(S1) :
             IF p \in KeyPathsOf(S2)
             THEN get(dictionary, p) = get(S2, p)
             ELSE get(dictionary, p) = get(S1, p)

\* C8 as amended: the sources of the list are merged in list order, deeply,
\* and the last one wins at the leaves: every value of the last source that
\* is no mapping is the merged dictionary's value at its key path.  For two
\* sources S1 before S2, a key path defined in both resolves to S2's value,
\* except that where both hold a mapping it resolves to the deep merge of the
\* two mappings; a key path defined only in S1 keeps S1's value, unless S2
\* holds a value that is no mapping at one of its ancestors, which replaces
\* the whole subtree.
C8_LastSourceWinsAtLeaves ==
    (Built /\ Len(locales.list) >= 2)
    => LET S1 == LoadedSource(1)
           S2 == LoadedSource(Len(locales.list))
       IN  /\ \A p \in LeafPaths(S2) : get(dictionary, p) = get(S2, p)
           /\ Len(locales.list) = 2 =>
                \A p \in KeyPathsOf(S1) :
                    IF p \in KeyPathsOf(S2)
                    THEN IF IsMapping(get(S1, p)) /\ IsMapping(get(S2, p))
                         THEN get(dictionary, p) = deepCloneMerge(get(S1, p), get(S2, p))
                         ELSE get(dictionary, p) = get(S2, p)
                    ELSE ~CutOff(S2, p) => get(dictionary, p) = get(S1, p)

C8_Witness ==
    /\ Built
    /\ Len(locales.list) = 2
    /\ \E p \in LeafPaths(LoadedSource(1)) \cap LeafPaths(LoadedSource(2)) :
         /\ Len(p) = 2
         /\ get(LoadedSource(1), p) # get(LoadedSource(2), p)
         /\ get(dictionary, p) = get(LoadedSource(2), p)
    /\ \E p \in LeafPaths(LoadedSource(1)) :
         /\ p \notin KeyPathsOf(LoadedSource(2))
         /\ get(dictionary, p) = get(LoadedSource(1), p)

\* the list names one directory, and the last entry of its listing is a
\* locale file
DirectoryEndsWithFile ==
    /\ Built
    /\ Len(locales.list) = 1
    /\ locales.list[1].kind = "dir"
    /\ locales.list[1].entries # <<>>
    /\ LET last == locales.list[1].entries[Len(locales.list[1].entries)]
       IN  last.kind = "file" /\ MatchesLocaleFile(last.name)

LastEntry == locales.list[1].entries[Len(locales.list[1].entries)]

\* s1.s2...sn of the name s1.s2...sn.<ext>
Stem(name) == SubSeq(name, 1, Len(name) - 1)

\* the mount path of C9 as stated: the stem, and the root for default.<ext>
StatedMountPath(name) == IF Stem(name) = <<"default">> THEN <<>> ELSE Stem(name)

\* the mount path of C9 as amended: the stem without a leading 'default'
AmendedMountPath(name) ==
    IF Stem(name) # <<>> /\ Head(Stem(name)) = "default" THEN Tail(Stem(name)) ELSE Stem(name)

\* C9 as stated: inside a directory source, a file s1.s2...sn.<ext> has its
\* content at the path s1 -> s2 -> ... -> sn of the directory's dictionary,
\* except that default.<ext> has its keys at the root.
C9_MountedAtStem ==
    DirectoryEndsWithFile
    => \A q \in LeafPaths(LastEntry.data) :
         get(dictionary, StatedMountPath(LastEntry.name) \o q) = get(LastEntry.data, q)

\* C9 as amended: inside a directory source, a file s1.s2...sn.<ext> has its
\* content at the path s1 -> s2 -> ... -> sn of the directory's dictionary,
\* except that a leading segment 'default' is dropped: default.<ext> has its
\* keys at the root, and default.s2...sn.<ext> has them at s2 -> ... -> sn.
C9_MountedAtStemWithoutDefault ==
    DirectoryEndsWithFile
    => \A q \in LeafPaths(LastEntry.data) :
         get(dictionary, AmendedMountPath(LastEntry.name) \o q) = get(LastEntry.data, q)

C9_Witness ==
    /\ DirectoryEndsWithFile
    /\ Len(locales.list[1].entries) = 2
    /\ locales.list[1].entries[1].kind = "file"
    /\ LastEntry.name = <<"a", "b", "yaml">>
    /\ \E q \in LeafPaths(LastEntry.data) :
         get(dictionary, <<"a", "b">> \o q) = get(LastEntry.data, q)

\* the last source of the list is a file
ListEndsWithFile ==
    /\ Built
    /\ locales.list[Len(locales.list)].kind = "file"

LastSource == locales.list[Len(locales.list)]

\* C10 as stated: a file that is an element of the locales list is mounted
\* by its name like a file found in a directory: its content is in the
\* merged dictionary under the path derived from its name.
C10_TopLevelFileMounted ==
    ListEndsWithFile
    => \A q \in LeafPaths(LastSource.data) :
         get(dictionary, MountParts(LastSource.name) \o q) = get(LastSource.data, q)

\* C10 as amended: a file that is an element of the locales list is not
\* mounted by its name: its content is merged at the root of the dictionary,
\* each of its keys at its own path.  Only files found during the expansion
\* of a directory are mounted by their names.
C10_TopLevelFileAtRoot ==
    ListEndsWithFile
    => \A q \in LeafPaths(LastSource.data) :
         get(dictionary, q) = get(LastSource.data, q)

C10_Witness ==
    /\ ListEndsWithFile
    /\ Len(locales.list) = 2
    /\ LastSource.name = <<"a", "b", "yaml">>
    /\ LastSource.data = Obj("b" :> Str("x"))
    /\ get(dictionary, <<"b">>) = Str("x")
    /\ get(dictionary, <<"a", "b", "b">>) = Undefined

-----------------------------------------------------------------------------
(* Errors of the load *)

RECURSIVE FailingPaths(_)
\* the paths the loader cannot load among those it visits from p: a path
\* that does not exist, a file whose extension is none of the known ones, a
\* file whose text the parser rejects.  Of a directory the loader visits the
\* entries whose names end in a locale extension.
FailingPaths(p) ==
    IF p.kind = "missing" THEN {p}
    ELSE IF p.kind = "dir"
    THEN UNION { FailingPaths(p.entries[i]) :
                   i \in { j \in DOMAIN p.entries : MatchesLocaleFile(p.entries[j].name) } }
    ELSE IF ~MatchesLocaleFile(p.name) \/ p.data.t = "invalid" THEN {p}
    ELSE {}

\* the error that names path p and says what went wrong with it
LoadError(p) ==
    IF p.kind = "missing" THEN "ENOENT: no such file or directory " \o Join(p.name)
    ELSE IF ~MatchesLocaleFile(p.name)
    THEN "Error loading localisation file " \o Join(p.name) \o ": Unknown file type"
    ELSE "Error loading localisation file " \o Join(p.name) \o ": parse error"

FailingSources == UNION { FailingPaths(locales.list[i]) : i \in DOMAIN locales.list }

\* C11: the load is all or nothing: if a source path does not exist, or a
\* file the loader reads has an unknown extension or a content the parser
\* rejects, renderer() throws an error that names a failing path (with the
\* parser's message for a parse failure) and no render function or dictionary
\* comes out of it; renderer() fails in no other case.
C11_LoadAllOrNothing ==
    (pc # "new" /\ locales.given)
    => IF FailingSources # {}
       THEN /\ pc = "failed"
            /\ failure \in { LoadError(p) : p \in FailingSources }
            /\ locale = Undefined
            /\ dictionary = Undefined
       ELSE pc = "ready" /\ failure = ""

C11_Witness ==
    /\ pc = "failed"
    /\ Len(locales.list) = 2
    /\ FailingPaths(locales.list[1]) = {}
    /\ locales.list[2] = File(<<"a", "json">>, Unparsable)
    /\ failure = "Error loading localisation file a.json: parse error"
    /\ dictionary = Undefined

-----------------------------------------------------------------------------
(* The modes of render *)

\* the last render call got an options object
ObjectArgument == pc = "rendered" /\ lastArg.str.t # "string"

\* what the last render call did
Outcome == [threw |-> result.threw, out |-> result.out, error |-> result.error]

\* C12: a render call whose options object sets none of template, string and
\* component throws 'Cannot render!' and returns no document, whatever its
\* other options are; a render call given a string s does what the call with
\* the options { template: s } does.
C12_NoModeCannotRender ==
    /\ ( /\ ObjectArgument
          /\ ~Truthy(lastArg.template)
          /\ ~Truthy(lastArg.string)
          /\ ~Truthy(lastArg.component) )
       => Outcome = [threw |-> TRUE, out |-> <<>>, error |-> "Cannot render!"]
    /\ (pc = "rendered" /\ lastArg.str.t = "string")
       => Outcome = render(locale, realistic,
                           Options(lastArg.str, Undefined, Undefined, Undefined, IgnoreUnset, <<>>))

C12_Witness ==
    /\ ObjectArgument
    /\ Loaded
    /\ lastArg.template = Undefined
    /\ lastArg.string = Undefined
    /\ lastArg.component = Undefined
    /\ lastArg.translate = Bool(TRUE)
    /\ IgnoreTrue
    /\ result.done
    /\ Threw("Cannot render!")
    /\ result.out = <<>>

\* a render call given the name of a template rendered that template
C12_StringWitness ==
    /\ pc = "rendered"
    /\ Realistic /\ Loaded
    /\ lastArg.str = Str("test.html")
    /\ Returned(get(locale, <<"test1">>))

-----------------------------------------------------------------------------
(* Strict misses that do not throw *)

\* strict mode, dictionary loaded, the key is absent, no default is given, and
\* self is false or the ignore option is true or lists the key
ExemptedMiss ==
    /\ Translated /\ Strict /\ Loaded
    /\ TheKeys # <<>>
    /\ Absent(TheKey)
    /\ ~DefaultGiven
    /\ SelfFalse \/ IgnoreTrue \/ IgnoreLists(TheKey)

C13_IgnoreTrueWitness ==
    /\ ExemptedMiss
    /\ SelfTrue
    /\ IgnoreTrue
    /\ lastArg.translate = Undefined
    /\ Returned(Str("[" \o Join(TheKey) \o "]"))

-----------------------------------------------------------------------------
(* Realistic misses without fallback *)

\* realistic mode, dictionary loaded, every candidate key is absent, no
\* default is given and self is false
UnresolvedWithoutSelf ==
    /\ Translated /\ Realistic /\ Loaded
    /\ \A i \in DOMAIN TheKeys : Absent(TheKeys[i])
    /\ ~DefaultGiven
    /\ SelfFalse

\* C14: realistic mode, dictionary loaded: when no candidate key resolves, no
\* default is given and self is false, translate yields undefined.
C14_UnresolvedYieldsUndefined ==
    UnresolvedWithoutSelf => Returned(Undefined)

\* C14, what the code yields instead: the value of self, the boolean false.
C14_UnresolvedYieldsFalse ==
    UnresolvedWithoutSelf => Returned(Bool(FALSE))

C14_Reached ==
    /\ UnresolvedWithoutSelf
    /\ TheKeys = << <<"test3">> >>
    /\ Returned(Bool(FALSE))

-----------------------------------------------------------------------------
(* The dictionary after the load *)

\* the dictionary the load of the locales argument produces
LoadResult ==
    IF locales.given THEN mergeLocales(mapLoadLocale(locales.list).values) ELSE Undefined

\* C15: the dictionary is never changed after construction: after any
\* sequence of render calls on a renderer, in either mode, the calls that
\* throw included, the dictionary the renderer holds and the one exposed as
\* render.dictionary are the dictionary that the load produced.
C15_DictionaryNeverChanges ==
    (pc \in {"ready", "rendered"})
    => locale = LoadResult /\ dictionary = LoadResult

\* a call that threw for a missing translation, after an earlier call that
\* threw as well
C15_Witness ==
    /\ pc = "rendered"
    /\ earlier.called /\ earlier.threw
    /\ Translated /\ Strict /\ Loaded
    /\ Threw("Translation not found for test3")
    /\ dictionary = LoadResult
    /\ get(dictionary, <<"obj", "obj2">>) # Undefined

-----------------------------------------------------------------------------
(* A directory and its fragments *)

\* the list names one directory whose entries are all locale files
DirectoryOfFragments ==
    /\ Built
    /\ Len(locales.list) = 1
    /\ locales.list[1].kind = "dir"
    /\ \A i \in DOMAIN locales.list[1].entries :
         /\ locales.list[1].entries[i].kind = "file"
         /\ MatchesLocaleFile(locales.list[1].entries[i].name)

Fragments == locales.list[1].entries

\* each fragment loaded on its own, as loadLocale(path) loads it
LoadedIndividually == [i \in DOMAIN Fragments |-> loadLocale(Fragments[i], Undefined).value]

\* the content of each fragment put under the mount path of its name
MountedFragments ==
    [i \in DOMAIN Fragments |-> Wrap(AmendedMountPath(Fragments[i].name), Fragments[i].data)]

\* C16 as stated: the dictionary of a directory of N fragment files is the
\* deep merge, in the order of the listing, of the fragments loaded one by one.
C16_DirectoryIsMergeOfLoads ==
    DirectoryOfFragments => dictionary = mergeFrom(Obj(NoKids), LoadedIndividually)

\* C16 as amended: the dictionary of a directory of N fragment files is the
\* deep merge, in the order of the listing, of the contents of the fragments,
\* each put under the mount path of its file name (the stem without a leading
\* 'default').  A fragment loaded on its own is not mounted, so the merge of
\* the fragments loaded one by one is a different dictionary unless every
\* fragment is named default.<ext>.
C16_DirectoryIsMergeOfMounted ==
    DirectoryOfFragments => dictionary = mergeFrom(Obj(NoKids), MountedFragments)

\* two fragments that meet at one key path, where the order decides
C16_Witness ==
    /\ DirectoryOfFragments
    /\ Len(Fragments) = 2
    /\ dictionary = mergeFrom(Obj(NoKids), MountedFragments)
    /\ dictionary # mergeBackwards(Obj(NoKids), MountedFragments)
    /\ dictionary # mergeFrom(Obj(NoKids), LoadedIndividually)

-----------------------------------------------------------------------------
(* Subdirectories of a locale directory *)

\* the list names one directory
OneDirectory ==
    /\ pc # "new"
    /\ locales.given
    /\ Len(locales.list) = 1
    /\ locales.list[1].kind = "dir"

RECURSIVE WithoutDirectories(_)
\* a listing without the entries that are directories
WithoutDirectories(entries) ==
    IF entries = <<>> THEN <<>>
    ELSE IF Head(entries).kind = "dir" THEN WithoutDirectories(Tail(entries))
    ELSE <<Head(entries)>> \o WithoutDirectories(Tail(entries))

\* what renderer() makes of the directory when its subdirectories are taken
\* out of the listing
LoadWithoutDirectories ==
    loadLocale(Dir(locales.list[1].name, WithoutDirectories(locales.list[1].entries)),
               Undefined)

HasSubdirectory == \E i \in DOMAIN locales.list[1].entries : locales.list[1].entries[i].kind = "dir"

\* every subdirectory of the listing has a name without a locale extension
PlainSubdirectories ==
    \A i \in DOMAIN locales.list[1].entries :
        locales.list[1].entries[i].kind = "dir"
        => ~MatchesLocaleFile(locales.list[1].entries[i].name)

\* C17: in the expansion of a directory, an entry that is itself a directory
\* is skipped whatever its name: it adds no keys and leaves what the entries
\* before it built as it is, so the load has the outcome of the load of the
\* listing without its directories.
C17_SubdirectoriesSkipped ==
    (OneDirectory /\ HasSubdirectory)
    => IF LoadWithoutDirectories.threw
       THEN pc = "failed" /\ failure = LoadWithoutDirectories.error
       ELSE pc = "ready" /\ dictionary = LoadWithoutDirectories.value

\* C17, the part the code keeps: a subdirectory whose name has no locale
\* extension is skipped.
C17_PlainSubdirectoriesSkipped ==
    (OneDirectory /\ HasSubdirectory /\ PlainSubdirectories)
    => IF LoadWithoutDirectories.threw
       THEN pc = "failed" /\ failure = LoadWithoutDirectories.error
       ELSE pc = "ready" /\ dictionary = LoadWithoutDirectories.value

\* a locale file followed by a subdirectory named sub.json: the keys of the
\* file are gone and those of the subdirectory are there
C17_Reached ==
    /\ OneDirectory
    /\ pc = "ready"
    /\ Len(locales.list[1].entries) = 2
    /\ locales.list[1].entries[1] = File(<<"a", "b", "yaml">>, Obj("a" :> Str("q")))
    /\ locales.list[1].entries[2].name = <<"sub", "json">>
    /\ dictionary = Obj("a" :> Obj("b" :> Str("x")))

-----------------------------------------------------------------------------
(* The text cleanHtml returns *)

IsLetter(c) == c \in {"a", "p", "u", "l"}

\* an opening tag of s ends at position j: '<', a name of one or more
\* letters, '>'
OpeningTagEndsAt(s, j) ==
    /\ s[j] = ">"
    /\ \E i \in 1..(j - 2) :
         /\ s[i] = "<"
         /\ \A k \in (i + 1)..(j - 1) : IsLetter(s[k])

\* a closing tag of s starts at position i: '</', a name, '>'
ClosingTagStartsAt(s, i) ==
    /\ s[i] = "<"
    /\ i + 3 <= Len(s)
    /\ s[i + 1] = "/"
    /\ \E j \in (i + 3)..Len(s) :
         /\ s[j] = ">"
         /\ \A k \in (i + 2)..(j - 1) : IsLetter(s[k])

NoSpaceAfterOpening(s) ==
    \A j \in 1..(Len(s) - 1) : OpeningTagEndsAt(s, j) => ~IsSpace(s[j + 1])

NoSpaceBeforeClosing(s) ==
    \A i \in 2..Len(s) : ClosingTagStartsAt(s, i) => ~IsSpace(s[i - 1])

NoNewline(s) == \A i \in DOMAIN s : s[i] # "\n"

\* an opening tag with a name of two letters or more ends at position j
LongOpeningTagEndsAt(s, j) ==
    /\ s[j] = ">"
    /\ \E i \in 1..(j - 3) :
         /\ s[i] = "<"
         /\ \A k \in (i + 1)..(j - 1) : IsLetter(s[k])

\* C18: in the text cleanHtml returns, no white space directly follows an
\* opening tag, whatever the length of its name (one-letter tags like <p>
\* included), none directly precedes a closing tag, and there is no newline.
C18_NoSpaceInsideTags ==
    pc = "clean"
    => /\ NoSpaceAfterOpening(cleaned)
       /\ NoSpaceBeforeClosing(cleaned)
       /\ NoNewline(cleaned)

\* C18, the part the code keeps: no white space follows an opening tag with a
\* name of two letters or more, none precedes a closing tag, and there is no
\* newline.
C18_NoSpaceInsideLongTags ==
    pc = "clean"
    => /\ \A j \in 1..(Len(cleaned) - 1) :
            LongOpeningTagEndsAt(cleaned, j) => ~IsSpace(cleaned[j + 1])
       /\ NoSpaceBeforeClosing(cleaned)
       /\ NoNewline(cleaned)

\* the space after <p> is still there
C18_Reached ==
    /\ pc = "clean"
    /\ html = <<"<", "p", ">", " ", "a", "<", "/", "p", ">">>
    /\ cleaned = <<"<", "p", ">", " ", "a", "<", "/", "p", ">">>

-----------------------------------------------------------------------------
(* One render call after another *)

\* C19: the options of a render call do not reach the calls after it: on one
\* renderer, after any sequence of render calls, the outcome of a render call
\* (what each of its translate calls returns or throws) is the one that the
\* dictionary, the mode, the keys and translate options and the call's own
\* translate and ignore options give, whatever the ignore option and the
\* translate flag of the call before it were and whether that call threw.
\* So after a call with ignore set a strict miss without ignore throws again,
\* and after a call with translate set a call without it shows the key.
C19_NoLeakBetweenCalls ==
    /\ pc = "rendered" => Outcome = render(locale, realistic, lastArg)
    /\ ( /\ earlier.called /\ earlier.ignore
          /\ Translated /\ Strict /\ Loaded
          /\ TheKeys # <<>>
          /\ Absent(TheKey)
          /\ ~DefaultGiven /\ SelfTrue
          /\ lastArg.ignore.t = "undefined" )
       => Threw("Translation not found for " \o Join(TheKey))
    /\ ( /\ earlier.called /\ earlier.translate
          /\ Translated /\ Strict /\ Loaded
          /\ TheKeys # <<>>
          /\ HasTranslation(TheKey)
          /\ ~Truthy(lastArg.translate) )
       => Returned(Str("[" \o Join(TheKey) \o "]"))

\* a strict miss without ignore throws after a call that had ignore and
\* translate set and threw
C19_Witness ==
    /\ earlier.called /\ earlier.ignore /\ earlier.translate /\ earlier.threw
    /\ Translated /\ Strict /\ Loaded
    /\ TheKeys # <<>>
    /\ TheKey = <<"test3">>
    /\ ~DefaultGiven /\ SelfTrue
    /\ lastArg.ignore.t = "undefined"
    /\ lastArg.translate = Undefined
    /\ Threw("Translation not found for test3")

-----------------------------------------------------------------------------
(* The context of a render call *)

\* the last render call rendered the source in options.string, which makes
\* one call
OneCall ==
    /\ pc = "rendered"
    /\ lastArg.str.t # "string"
    /\ ~Truthy(lastArg.template)
    /\ Truthy(lastArg.string)
    /\ Len(lastArg.body) = 1

\* the context the template is to see: the entries of the caller, and the
\* built-in translate and ctx under the names the caller left free
MergedContext ==
    Obj([k \in {"translate", "ctx"} \cup DOMAIN lastArg.context |->
           IF k \in DOMAIN lastArg.context THEN lastArg.context[k] ELSE Fn(k)])

\* the key of the ctx call, "" when there is none
CtxKey == IF TheKeys = <<>> THEN <<>> ELSE TheKey

\* C20: every render call puts the built-in translate and ctx into the
\* context, and the entries of the caller come first: a template that calls
\* translate or ctx gets the caller's function if the context passed to
\* render has one under that name, and the built-in otherwise; the built-in
\* ctx() without a key (or with the empty key) returns the whole merged
\* context, translate and ctx included, and ctx(key) the value at the dotted
\* path key of the merged context.
C20_CallerContextFirst ==
    OneCall
    => IF TheCall.fn \in DOMAIN lastArg.context
       THEN Returned(Applied(lastArg.context[TheCall.fn]))
       ELSE IF TheCall.fn = "translate"
       THEN LET r == translate(locale, realistic, lastArg, TheCall.key, TheCall.opts)
            IN  IF r.threw THEN Threw(r.error) ELSE Returned(r.value)
       ELSE IF Join(CtxKey) = ""
       THEN /\ Returned(MergedContext)
            /\ {"translate", "ctx"} \subseteq DOMAIN result.out[1].kids
       ELSE Returned(get(MergedContext, CtxKey))

\* the template calls translate and gets the function of the caller
C20_Witness ==
    /\ OneCall
    /\ Loaded
    /\ TheCall.fn = "translate"
    /\ lastArg.context = ("translate" :> Fn("callerTranslate"))
    /\ Returned(Str("result of callerTranslate"))

\* ctx() gives the whole context, ctx('user.name') the value at the path
C20_CtxWitness ==
    /\ OneCall
    /\ TheCall.fn = "ctx"
    /\ TheKeys = << <<"user", "name">> >>
    /\ "user" \in DOMAIN lastArg.context
    /\ Returned(Str("Jo"))

====
